---- MODULE Spec2Model ----
(***************************************************************************)
(* A model of the view ("turtle") and nest resolution of the Malloy        *)
(* translator, of its numeric literal classification, of the parameter     *)
(* entries of a field space, and of the objects around them; and of the    *)
(* worker process of the editor extension and the Snowflake executor.      *)
(*                                                                         *)
(* The source space `fs` is a DynamicSpace holding the columns of the      *)
(* source, a parameter and the views declared so far.  A query stage over  *)
(* that source is a QuerySpace `qs` whose inputSpace() is `fs`.            *)
(***************************************************************************)
EXTENDS Integers, Sequences, FiniteSets, TLC

VARIABLES
    experiments,   \* TRUE iff the compiler flag experimental.scalar_lenses is set
    views,         \* fs: view name -> the TurtleDecl registered under it, or NoDecl
    nests,         \* qs: the entries registered in the query space, in order
    lit,           \* the text of the numeric literal, an ExprNumber's n
    params,        \* a parameter declaration and the SpaceParams made so far
    procs,         \* the worker processes forked so far, in order
    worker,        \* WorkerConnection.worker: the index in procs of the last fork
    timers,        \* the number of setTimeout(startWorker, 5000) not yet fired
    pool,          \* SnowflakeExecutor.pool_: connections free, and who waits
    calls,         \* the batch and stream calls made on the executor, in order
    res,           \* what the last operation returned
    diags          \* the diagnostics logged by the last operation, in order

vars == <<experiments, views, nests, lit, params, procs, worker, timers, pool,
          calls, res, diags>>

\* The state of the extension's worker and of the Snowflake executor.
runtime == <<procs, worker, timers, pool, calls>>

\* No WorkerConnection and no SnowflakeExecutor has been made.
NoRuntime ==
    /\ procs = <<>>
    /\ worker = 0
    /\ timers = 0
    /\ pool = [free |-> 0, waiting |-> <<>>]
    /\ calls = <<>>

----------------------------------------------------------------------------
(* Bounds of the model *)

\* The number of clauses written in all the declarations of one source.
MaxClauses == 3

\* A parameter declaration (HasParameter) whose type is not known yet, and no
\* SpaceParam.
Undefined == "undefined"
NoParams == [astParam |-> [name |-> "p", type |-> Undefined], entries |-> <<>>]

----------------------------------------------------------------------------
(* Pipelines, stages and clauses *)

\* The query properties a declaration can carry: two that define the kind of
\* a stage and one (a filter) that does not.
Clauses == {"group_by", "select", "where"}

DefiningKind(c) ==
    CASE c = "group_by" -> "reduce"
      [] c = "select"   -> "project"
      [] OTHER          -> "partial"

RECURSIVE StageType(_)
\* The kind of a stage carrying the clauses `ops`: that of its first defining
\* clause, "partial" when it has none.
StageType(ops) ==
    IF ops = <<>> THEN "partial"
    ELSE IF DefiningKind(Head(ops)) # "partial" THEN DefiningKind(Head(ops))
    ELSE StageType(Tail(ops))

\* A pipeline segment: its kind, the clauses it was built from, the space they
\* were evaluated against and, for a synthesized segment, its field references.
MkStage(ops, scope) ==
    [type |-> StageType(ops), ops |-> ops, scope |-> scope, fields |-> <<>>]

\* A clause continues a stage unless both name a defining kind and the two differ.
Compatible(stage, c) ==
    \/ DefiningKind(c) = "partial"
    \/ stage.type = "partial"
    \/ stage.type = DefiningKind(c)

Front(s) == SubSeq(s, 1, Len(s) - 1)
Last(s) == s[Len(s)]

\* One refinement clause onto a pipeline: merged into the last stage when it
\* can continue it, else a new stage.
RefineOne(pipeline, c) ==
    IF pipeline # <<>> /\ Compatible(Last(pipeline), c)
    THEN LET merged == Append(Last(pipeline).ops, c)
         IN  Append(Front(pipeline),
                    [Last(pipeline) EXCEPT !.type = IF @ = "partial"
                                                    THEN DefiningKind(c) ELSE @,
                                           !.ops = merged])
    ELSE Append(pipeline, MkStage(<<c>>, "fs"))

RECURSIVE RefineAll(_, _)
RefineAll(pipeline, clauses) ==
    IF clauses = <<>> THEN pipeline
    ELSE RefineAll(RefineOne(pipeline, Head(clauses)), Tail(clauses))

\* PipelineDesc.refinePipeline(fs, modelPipe): the refinement operator with
\* this declaration's refinement clauses, applied left to right.
refinePipeline(refinements, pipeline) == RefineAll(pipeline, refinements)

RECURSIVE appendOps(_, _, _)
\* PipelineDesc.appendOps(fs, pipeline).opList: one new stage per query
\* operation of the declaration, evaluated against `scope`.
appendOps(qops, scope, pipeline) ==
    IF qops = <<>> THEN pipeline
    ELSE appendOps(Tail(qops), scope, Append(pipeline, MkStage(Head(qops), scope)))

\* detectAndRemovePartialStages(pipeline)
detectAndRemovePartialStages(pipeline) ==
    LET keep == SelectSeq(pipeline, LAMBDA s : s.type # "partial")
    IN  [hasPartials |-> Len(keep) # Len(pipeline), pipeline |-> keep]

----------------------------------------------------------------------------
(* The source space *)

ViewNames == <<"v0", "v1", "v2">>
NoDecl == [name |-> "none"]

\* The columns of the source: an atomic one and a join.  The join's own space
\* holds the same names as the source's.
ColumnType(n) ==
    CASE n = "amount" -> "number"
      [] n = "j"      -> "struct"
      [] OTHER        -> "none"

Declared(fs, n) == \E i \in DOMAIN ViewNames : ViewNames[i] = n /\ fs[n] # NoDecl

\* fs.entry(name)
Entry(fs, n) ==
    IF Declared(fs, n) THEN [kind |-> "view", name |-> n]
    ELSE IF ColumnType(n) # "none" THEN [kind |-> "column", name |-> n, type |-> ColumnType(n)]
    ELSE IF n = "q" THEN [kind |-> "queryfield", name |-> n, type |-> "number"]
    ELSE IF n = "p" THEN [kind |-> "param", name |-> n]
    ELSE [kind |-> "none", name |-> n]

\* FieldReference.getField(fs): fs.lookup(list).  A path of two segments goes
\* through the join, whose own space holds the same names.
Lookup(fs, list) ==
    LET e == Entry(fs, Last(list))
    IN  IF Len(list) > 1 /\ (Len(list) > 2 \/ ColumnType(list[1]) # "struct")
        THEN [found |-> [kind |-> "none", name |-> list[1]],
              error |-> <<"is not a join", list[1]>>]
        ELSE IF e.kind = "none"
        THEN [found |-> e, error |-> <<"is not defined", e.name>>]
        ELSE [found |-> e, error |-> <<>>]

----------------------------------------------------------------------------
(* TurtleDeclRoot *)

Diag(node, msg, ref) == [node |-> node, msg |-> msg, ref |-> ref]

\* isTurtle(fd)
isTurtle(fd) == fd.type = "turtle"

\* The number of clauses a declaration carries.
RECURSIVE SumLen(_)
SumLen(ss) == IF ss = <<>> THEN 0 ELSE Len(Head(ss)) + SumLen(Tail(ss))
ClauseCount(d) == IF d = NoDecl THEN 0 ELSE Len(d.refinements) + SumLen(d.qops)

RECURSIVE getPipeline(_, _, _), getFieldDef(_, _, _)

\* QueryField.getQueryFieldDef(fs): ViewField's (lines 232-238, renameAs
\* unset) is the TurtleDef of its declaration; that of a QueryField which is
\* no view is the definition of a field.
getQueryFieldDef(fs, exp, found) ==
    IF found.kind = "view"
    THEN getFieldDef(fs, exp, fs[found.name])
    ELSE [def |-> [type |-> found.type, name |-> found.name], log |-> <<>>]

\* found instanceof QueryField: a view, or a field defined in a query.
isQueryField(found) == found.kind \in {"view", "queryfield"}

\* found instanceof ColumnSpaceField
isColumnSpaceField(found) == found.kind = "column"

WrongType(d) == Diag(d.name, "Expected to be a query", d.turtleName)

\* Lines 82-93 with reportWrongType cleared for every QueryField.
refineHead_NeverWrong(d, head) ==
    LET joinLog == IF Len(d.turtleName) > 1
                   THEN <<Diag(d.name, "Cannot use view from join", d.turtleName)>>
                   ELSE <<>>
    IN  IF isTurtle(head.def)
        THEN [pipeline |-> refinePipeline(d.refinements, head.def.pipeline),
              refines |-> 1,
              log |-> joinLog \o head.log]
        ELSE [pipeline |-> <<>>, refines |-> 0, log |-> joinLog \o head.log]

\* TurtleDeclRoot.getPipeline, lines 82-93: the name is that of a QueryField
\* whose definition is `head`.
refineHead(d, head) ==
    LET joinLog == IF Len(d.turtleName) > 1
                   THEN <<Diag(d.name, "Cannot use view from join", d.turtleName)>>
                   ELSE <<>>
    IN  IF isTurtle(head.def)
        THEN [pipeline |-> refinePipeline(d.refinements, head.def.pipeline),
              refines |-> 1,
              log |-> joinLog \o head.log]
        ELSE [pipeline |-> <<>>, refines |-> 0,
              log |-> (joinLog \o head.log) \o <<WrongType(d)>>]

\* Lines 76-106 without the experiment test of line 96.
resolveFound_LensAlways(fs, exp, d, headEnt) ==
    IF headEnt.error # <<>>
    THEN [pipeline |-> <<>>, refines |-> 0,
          log |-> <<Diag(d.name, headEnt.error[1], d.turtleName)>>]
    ELSE IF isQueryField(headEnt.found)
    THEN refineHead(d, getQueryFieldDef(fs, exp, headEnt.found))
    ELSE IF isColumnSpaceField(headEnt.found) /\ headEnt.found.type # "struct"
    THEN [pipeline |-> refinePipeline(d.refinements,
                          <<[type |-> "reduce", ops |-> <<>>, scope |-> "fs",
                             fields |-> <<d.turtleName>>]>>),
          refines |-> 1,
          log |-> <<>>]
    ELSE [pipeline |-> <<>>, refines |-> 0, log |-> <<WrongType(d)>>]

\* Lines 76-106 with reportWrongType left set after a failed lookup.
resolveFound_ReportsAfterError(fs, exp, d, headEnt) ==
    IF headEnt.error # <<>>
    THEN [pipeline |-> <<>>, refines |-> 0,
          log |-> <<Diag(d.name, headEnt.error[1], d.turtleName), WrongType(d)>>]
    ELSE IF isQueryField(headEnt.found)
    THEN refineHead(d, getQueryFieldDef(fs, exp, headEnt.found))
    ELSE IF isColumnSpaceField(headEnt.found) /\ exp /\ headEnt.found.type # "struct"
    THEN [pipeline |-> refinePipeline(d.refinements,
                          <<[type |-> "reduce", ops |-> <<>>, scope |-> "fs",
                             fields |-> <<d.turtleName>>]>>),
          refines |-> 1,
          log |-> <<>>]
    ELSE [pipeline |-> <<>>, refines |-> 0, log |-> <<WrongType(d)>>]

\* TurtleDeclRoot.getPipeline, lines 76-106, the name looked up as `headEnt`.
resolveFound(fs, exp, d, headEnt) ==
    IF headEnt.error # <<>>
    THEN [pipeline |-> <<>>, refines |-> 0,
          log |-> <<Diag(d.name, headEnt.error[1], d.turtleName)>>]
    ELSE IF isQueryField(headEnt.found)
    THEN refineHead(d, getQueryFieldDef(fs, exp, headEnt.found))
    ELSE IF isColumnSpaceField(headEnt.found) /\ exp /\ headEnt.found.type # "struct"
    THEN [pipeline |-> refinePipeline(d.refinements,
                          <<[type |-> "reduce", ops |-> <<>>, scope |-> "fs",
                             fields |-> <<d.turtleName>>]>>),
          refines |-> 1,
          log |-> <<>>]
    ELSE [pipeline |-> <<>>, refines |-> 0, log |-> <<WrongType(d)>>]

\* TurtleDeclRoot.getPipeline, lines 75-107: the pipeline of the extended name.
resolveHead(fs, exp, d) == resolveFound(fs, exp, d, Lookup(fs, d.turtleName))

\* pipeOutFS with the test of line 110 dropped: always a fresh StaticSpace.
pipeOutFS_AlwaysStatic(pipeline) == "out"

\* pipeOutFS with the test of line 110 inverted.
pipeOutFS_Inverted(pipeline) == IF Len(pipeline) > 0 THEN "fs" ELSE "out"

\* TurtleDeclRoot.getPipeline, lines 109-113: the space the declaration's own
\* stages are evaluated against, fs or a StaticSpace over the output of the
\* pipeline so far.
pipeOutFS(pipeline) == IF Len(pipeline) > 0 THEN "out" ELSE "fs"

\* trailingRefinement without the test of line 119: also after a named base.
trailingRefinement_AlsoWithBase(d) == Len(d.refinements) > 0

\* trailingRefinement without the tests of lines 117-118: also when the
\* declaration has no refinement clause.
trailingRefinement_NoClauseTest(d) == d.turtleName = <<>>

\* TurtleDeclRoot.getPipeline, lines 116-120: whether the assembled pipeline
\* is refined at the end.
trailingRefinement(d) == Len(d.refinements) > 0 /\ d.turtleName = <<>>

\* TurtleDeclRoot.getPipeline, lines 114-127: the declaration's own stages
\* after `pipeline`, evaluated against `scope`, and the trailing refinement.
\* `base` is modelPipe.pipeline as line 109 finds it, `refines` the number of
\* calls of refinePipeline made, `trailing` whether that of line 121 was one.
assemble(d, base, scope) ==
    [pipeline |-> IF trailingRefinement(d)
                  THEN refinePipeline(d.refinements,
                                      appendOps(d.qops, scope, base.pipeline))
                  ELSE appendOps(d.qops, scope, base.pipeline),
     refines |-> IF trailingRefinement(d) THEN base.refines + 1 ELSE base.refines,
     base |-> base.pipeline,
     trailing |-> trailingRefinement(d),
     scope |-> scope,
     log |-> base.log]

\* TurtleDeclRoot.getPipeline, lines 109-127
afterHead(d, base) == assemble(d, base, pipeOutFS(base.pipeline))

\* TurtleDeclRoot.getPipeline(fs)
getPipeline(fs, exp, d) ==
    afterHead(d, IF d.turtleName # <<>>
                 THEN resolveHead(fs, exp, d)
                 ELSE [pipeline |-> <<>>, refines |-> 0, log |-> <<>>])

\* TurtleDeclRoot.getFieldDef, lines 132-149, with the test of line 143
\* inverted.
turtleOf_Inverted(d, pipe, clean) ==
    LET turtle == [type |-> "turtle", name |-> d.name, pipeline |-> pipe.pipeline,
                   location |-> d.name]
    IN  IF ~clean.hasPartials
        THEN [def |-> [turtle EXCEPT !.pipeline = clean.pipeline],
              log |-> Append(pipe.log, Diag(d.name, "Can't determine view type", <<>>))]
        ELSE [def |-> turtle, log |-> pipe.log]

\* Lines 132-149 returning, at line 147, the TurtleDef as it was built.
turtleOf_KeepsPartials(d, pipe, clean) ==
    LET turtle == [type |-> "turtle", name |-> d.name, pipeline |-> pipe.pipeline,
                   location |-> d.name]
    IN  IF clean.hasPartials
        THEN [def |-> turtle,
              log |-> Append(pipe.log, Diag(d.name, "Can't determine view type", <<>>))]
        ELSE [def |-> turtle, log |-> pipe.log]

\* TurtleDeclRoot.getFieldDef, lines 132-149: the TurtleDef made of the
\* pipeline `pipe`, whose partial stages are told apart in `clean`.
turtleOf(d, pipe, clean) ==
    LET turtle == [type |-> "turtle", name |-> d.name, pipeline |-> pipe.pipeline,
                   location |-> d.name]
    IN  IF clean.hasPartials
        THEN [def |-> [turtle EXCEPT !.pipeline = clean.pipeline],
              log |-> Append(pipe.log, Diag(d.name, "Can't determine view type", <<>>))]
        ELSE [def |-> turtle, log |-> pipe.log]

\* TurtleDeclRoot.getFieldDef, lines 131-149, once getPipeline has returned.
fieldDefOf(d, pipe) == turtleOf(d, pipe, detectAndRemovePartialStages(pipe.pipeline))

\* TurtleDeclRoot.getFieldDef(fs)
getFieldDef(fs, exp, d) == fieldDefOf(d, getPipeline(fs, exp, d))

----------------------------------------------------------------------------
(* The view declarations of a source *)

RECURSIVE SeqsUpTo(_, _)
\* The sequences over S of length at most n.
SeqsUpTo(S, n) ==
    IF n = 0 THEN {<<>>}
    ELSE LET shorter == SeqsUpTo(S, n - 1)
         IN  shorter \cup {Append(s, x) : s \in shorter, x \in S}

NumDeclared(fs) == Cardinality({i \in DOMAIN ViewNames : fs[ViewNames[i]] # NoDecl})

RECURSIVE TotalClauses(_, _)
TotalClauses(fs, i) ==
    IF i = 0 THEN 0 ELSE ClauseCount(fs[ViewNames[i]]) + TotalClauses(fs, i - 1)

\* The names a view declaration may extend: a view declared before it.
ViewHeads(fs) == {<<ViewNames[i]>> : i \in 1..NumDeclared(fs)}

\* TurtleDeclRoot.makeEntry(fs): fs.newEntry(this.name, this, new ViewField(...))
\* for the next view of the source.
DeclareView(heads) ==
    /\ NumDeclared(views) < Len(ViewNames)
    /\ LET left == MaxClauses - TotalClauses(views, Len(ViewNames))
           name == ViewNames[NumDeclared(views) + 1]
       IN  \E head \in {<<>>} \cup heads,
              refinements \in SeqsUpTo(Clauses, left),
              ops \in SeqsUpTo({<<c>> : c \in Clauses}, left) :
             /\ Len(refinements) + Len(ops) <= left
             /\ views' = [views EXCEPT ![name] =
                              [name |-> name, turtleName |-> head,
                               refinements |-> refinements, qops |-> ops]]
    /\ res' = [op |-> "makeEntry"]
    /\ diags' = <<>>
    /\ UNCHANGED <<experiments, nests, lit, params, runtime>>

\* The view under translation: the one declared last.  A view's pipeline reads
\* only the declarations made before it, so every resolution of every view of
\* a source is the resolution of the last view of one of its prefixes.
Current(fs) == fs[ViewNames[NumDeclared(fs)]]

GetPipeline ==
    /\ NumDeclared(views) > 0
    /\ LET d == Current(views)
           r == getPipeline(views, experiments, d)
       IN  /\ res' = [op |-> "getPipeline", view |-> d.name,
                      pipeline |-> r.pipeline, refines |-> r.refines, scope |-> r.scope,
                      base |-> r.base, trailing |-> r.trailing]
           /\ diags' = r.log
    /\ UNCHANGED <<experiments, views, nests, lit, params, runtime>>

GetFieldDef ==
    /\ NumDeclared(views) > 0
    /\ LET d == Current(views)
           r == getFieldDef(views, experiments, d)
       IN  /\ res' = [op |-> "getFieldDef", view |-> d.name, def |-> r.def]
           /\ diags' = r.log
    /\ UNCHANGED <<experiments, views, nests, lit, params, runtime>>

\* A source with no view yet, translated without experimental flags.
InitViews ==
    /\ experiments = FALSE
    /\ views = [n \in {ViewNames[i] : i \in DOMAIN ViewNames} |-> NoDecl]
    /\ nests = <<>>
    /\ lit = <<>>
    /\ params = NoParams
    /\ NoRuntime
    /\ res = [op |-> "init"]
    /\ diags = <<>>

NextViews ==
    \/ DeclareView(ViewHeads(views))
    \/ GetPipeline
    \/ GetFieldDef

SpecViews == InitViews /\ [][NextViews]_vars

----------------------------------------------------------------------------
(* A view extending a name of any kind *)

\* The names a declaration may be written to extend: views, columns, a join,
\* a field of a query, a parameter, names that are not there, alone and
\* through the join, and a path through a column that is no join.
ExtendedNames ==
    {<<"v0">>, <<"j", "v0">>, <<"amount">>, <<"j", "amount">>, <<"j">>,
     <<"q">>, <<"j", "q">>, <<"p">>, <<"missing">>, <<"j", "missing">>,
     <<"amount", "v0">>}

\* The views a source starts with: of one whole stage, of two, of a partial
\* stage only.
BaseViews ==
    {[name |-> "v0", turtleName |-> <<>>, refinements |-> r, qops |-> ops] :
        r \in {<<>>}, ops \in {<<<<"group_by">>>>, <<<<"group_by">>, <<"select">>>>,
                                <<<<"where">>>>}}

\* TurtleDeclRoot.makeEntry(fs) of a view written after the first.
DeclareExtension ==
    /\ NumDeclared(views) < 2
    /\ DeclareView(ExtendedNames)

\* A source with one view, translated with or without the scalar_lenses
\* experiment.
InitExtends ==
    /\ experiments \in BOOLEAN
    /\ \E v0 \in BaseViews :
           views = [n \in {ViewNames[i] : i \in DOMAIN ViewNames} |->
                       IF n = "v0" THEN v0 ELSE NoDecl]
    /\ nests = <<>>
    /\ lit = <<>>
    /\ params = NoParams
    /\ NoRuntime
    /\ res = [op |-> "init"]
    /\ diags = <<>>

NextExtends ==
    \/ DeclareExtension
    \/ GetPipeline
    \/ GetFieldDef

SpecExtends == InitExtends /\ [][NextExtends]_vars

----------------------------------------------------------------------------
(* Nests: NestReference, NestDefinition, NestRefinement *)

\* The number of entries of the query space.
MaxNests == 2

\* The field spaces a nest can be asked to register in: the QuerySpace of the
\* stage under translation, or the DynamicSpace of the source.
Spaces == {"qs", "fs"}
isQuerySpace(space) == space = "qs"

ExpressionTypes == {"scalar", "aggregate", "analytic"}
expressionIsScalar(e) == e = "scalar"
expressionIsAggregate(e) == e = "aggregate"
expressionIsAnalytic(e) == e = "analytic"

NestMessage(kind, useInstead) ==
    "Cannot use " \o kind \o " field in a nest operation, did you mean to use "
        \o useInstead \o " operation instead?"

NoThrow == "none"
Quiet == [log |-> <<>>, thrown |-> NoThrow]

ScalarDiag == Diag("nest", NestMessage("a scalar", "a group_by or select"), <<>>)
AggregateDiag == Diag("nest", NestMessage("an aggregate", "an aggregate"), <<>>)

\* typecheck without the test of line 273: a view is classified like any
\* other target.
typecheck_NoTurtleTest(exp, type) ==
    IF expressionIsAnalytic(type.expressionType)
    THEN Quiet
    ELSE IF exp
    THEN Quiet
    ELSE IF expressionIsScalar(type.expressionType)
    THEN [log |-> <<ScalarDiag>>, thrown |-> NoThrow]
    ELSE IF expressionIsAggregate(type.expressionType)
    THEN [log |-> <<AggregateDiag>>, thrown |-> NoThrow]
    ELSE [log |-> <<>>, thrown |-> "Unexpected expression type not handled here"]

\* typecheck with the test of line 280 inverted: quiet without the experiment.
typecheck_LensInverted(exp, type) ==
    IF type.dataType # "turtle"
    THEN IF expressionIsAnalytic(type.expressionType)
         THEN Quiet
         ELSE IF ~exp
         THEN Quiet
         ELSE IF expressionIsScalar(type.expressionType)
         THEN [log |-> <<ScalarDiag>>, thrown |-> NoThrow]
         ELSE IF expressionIsAggregate(type.expressionType)
         THEN [log |-> <<AggregateDiag>>, thrown |-> NoThrow]
         ELSE [log |-> <<>>, thrown |-> "Unexpected expression type not handled here"]
    ELSE Quiet

\* NestReference.typecheck(type)
typecheck(exp, type) ==
    IF type.dataType # "turtle"
    THEN IF expressionIsAnalytic(type.expressionType)
         THEN Quiet
         ELSE IF exp
         THEN Quiet
         ELSE IF expressionIsScalar(type.expressionType)
         THEN [log |-> <<ScalarDiag>>, thrown |-> NoThrow]
         ELSE IF expressionIsAggregate(type.expressionType)
         THEN [log |-> <<AggregateDiag>>, thrown |-> NoThrow]
         ELSE [log |-> <<>>, thrown |-> "Unexpected expression type not handled here"]
    ELSE Quiet

\* found instanceof SpaceField: a column or a view, not a parameter.
isSpaceField(found) == found.kind \in {"view", "column", "queryfield"}

\* model.isAtomicField(field): a leaf, neither a join nor a view.
isAtomicField(field) == field.type \notin {"struct", "turtle"}

\* SpaceField.fieldDef(): the definition of a column, or ViewField.fieldDef()
\* (lines 240-246), which resolves the view in its own space.
fieldDef(fs, exp, found) ==
    IF found.kind = "view"
    THEN getFieldDef(fs, exp, fs[found.name])
    ELSE [def |-> [type |-> found.type, name |-> found.name,
                   expressionType |-> "undefined"],
          log |-> <<>>]

InternalError == "Unexpected namespace for nest"

\* new QueryFieldStruct(fs, {type: 'turtle', ...}), lines 311-327
QueryFieldStruct(space, field, path) ==
    [kind |-> "QueryFieldStruct", inSpace |-> space,
     def |-> [type |-> "turtle", name |-> field.name,
              pipeline |-> <<[type |-> "reduce",
                              fields |-> <<[type |-> field.type,
                                            name |-> field.name,
                                            expressionType |-> field.expressionType,
                                            e |-> <<[type |-> "field", path |-> path]>>]>>]>>]]

\* FieldReference.makeEntry(fs): the reference itself, under its output name.
superMakeEntry(space, name) ==
    [name |-> Last(name),
     entry |-> [kind |-> "ReferenceField", inSpace |-> space, ref |-> name]]

\* NestReference.makeEntry with the shortcut of lines 304-331 taken only in
\* the scalar_lenses experiment.
NestReference_makeEntry_Gated(fs, exp, name, space) ==
    IF isQuerySpace(space)
    THEN LET lookup == Lookup(fs, name)
             isField == isSpaceField(lookup.found)
             fd == fieldDef(fs, exp, lookup.found)
             seen == IF isField THEN fd.log ELSE <<>>
         IN  IF exp /\ isField /\ isAtomicField(fd.def)
             THEN [thrown |-> NoThrow, log |-> seen,
                   calls |-> <<[name |-> fd.def.name,
                                entry |-> QueryFieldStruct(space, fd.def, name)]>>]
             ELSE IF Len(name) > 1
             THEN [thrown |-> NoThrow, calls |-> <<>>,
                   log |-> Append(seen, Diag("nest", "Cannot nest view from join", name))]
             ELSE [thrown |-> NoThrow, log |-> seen,
                   calls |-> <<superMakeEntry(space, name)>>]
    ELSE [thrown |-> InternalError, log |-> <<>>, calls |-> <<>>]

\* NestReference.makeEntry without the shortcut of lines 304-331.
NestReference_makeEntry_NoShortcut(fs, exp, name, space) ==
    IF isQuerySpace(space)
    THEN IF Len(name) > 1
         THEN [thrown |-> NoThrow, calls |-> <<>>,
               log |-> <<Diag("nest", "Cannot nest view from join", name)>>]
         ELSE [thrown |-> NoThrow, log |-> <<>>,
               calls |-> <<superMakeEntry(space, name)>>]
    ELSE [thrown |-> InternalError, log |-> <<>>, calls |-> <<>>]

\* NestReference.makeEntry with the join test of lines 332-335 made first.
NestReference_makeEntry_JoinFirst(fs, exp, name, space) ==
    IF isQuerySpace(space)
    THEN LET lookup == Lookup(fs, name)
             isField == isSpaceField(lookup.found)
             fd == fieldDef(fs, exp, lookup.found)
         IN  IF Len(name) > 1
             THEN [thrown |-> NoThrow, calls |-> <<>>,
                   log |-> <<Diag("nest", "Cannot nest view from join", name)>>]
             ELSE IF isField /\ isAtomicField(fd.def)
             THEN [thrown |-> NoThrow, log |-> fd.log,
                   calls |-> <<[name |-> fd.def.name,
                                entry |-> QueryFieldStruct(space, fd.def, name)]>>]
             ELSE [thrown |-> NoThrow, log |-> IF isField THEN fd.log ELSE <<>>,
                   calls |-> <<superMakeEntry(space, name)>>]
    ELSE [thrown |-> InternalError, log |-> <<>>, calls |-> <<>>]

\* NestReference.makeEntry(fs); this.name is the reference the nest was made of
NestReference_makeEntry(fs, exp, name, space) ==
    IF isQuerySpace(space)
    THEN LET lookup == Lookup(fs, name)
             isField == isSpaceField(lookup.found)
             fd == fieldDef(fs, exp, lookup.found)
             seen == IF isField THEN fd.log ELSE <<>>
         IN  IF isField /\ isAtomicField(fd.def)
             THEN [thrown |-> NoThrow, log |-> seen,
                   calls |-> <<[name |-> fd.def.name,
                                entry |-> QueryFieldStruct(space, fd.def, name)]>>]
             ELSE IF Len(name) > 1
             THEN [thrown |-> NoThrow, calls |-> <<>>,
                   log |-> Append(seen, Diag("nest", "Cannot nest view from join", name))]
             ELSE [thrown |-> NoThrow, log |-> seen,
                   calls |-> <<superMakeEntry(space, name)>>]
    ELSE [thrown |-> InternalError, log |-> <<>>, calls |-> <<>>]

\* new NestField(fs, turtle, name, spaceContainingNest): a ViewField whose
\* declaration is told the query space it is a nest of.
NestField(space, turtle, name, spaceContainingNest) ==
    [kind |-> "NestField", inSpace |-> space, turtle |-> turtle, name |-> name,
     nestIn |-> spaceContainingNest]

\* NestDefinition.makeEntry without the test of line 205.
NestDefinition_makeEntry_AnySpace(d, space) ==
    [thrown |-> NoThrow, log |-> <<>>,
     calls |-> <<[name |-> d.name, entry |-> NestField(space, d, d.name, space)]>>]

\* NestDefinition.makeEntry(fs)
NestDefinition_makeEntry(d, space) ==
    IF isQuerySpace(space)
    THEN [thrown |-> NoThrow, log |-> <<>>,
          calls |-> <<[name |-> d.name, entry |-> NestField(space, d, d.name, space)]>>]
    ELSE [thrown |-> InternalError, log |-> <<>>, calls |-> <<>>]

\* NestRefinement.makeEntry(fs)
NestRefinement_makeEntry(d, space) ==
    IF isQuerySpace(space)
    THEN [thrown |-> NoThrow, log |-> <<>>,
          calls |-> <<[name |-> d.name, entry |-> NestField(space, d, d.name, space)]>>]
    ELSE [thrown |-> InternalError, log |-> <<>>, calls |-> <<>>]

\* DynamicSpace.newEntry(name, logTo, entry): a name is declared once.
HasEntry(entries, name) == \E i \in DOMAIN entries : entries[i].name = name

newEntry(entries, call) ==
    IF HasEntry(entries, call.name)
    THEN [entries |-> entries, log |-> <<Diag("nest", "Cannot redefine", <<call.name>>)>>]
    ELSE [entries |-> Append(entries, [name |-> call.name, entry |-> call.entry]),
          log |-> <<>>]

\* What a makeEntry that ended as `r` leaves behind.  A makeEntry that throws
\* has made no call.
Registered(op, subject, space, r) ==
    LET done == IF r.calls = <<>>
                THEN [entries |-> nests, log |-> <<>>]
                ELSE newEntry(nests, r.calls[1])
    IN  /\ nests' = done.entries
        /\ diags' = r.log \o done.log
        /\ res' = [op |-> op, subject |-> subject, space |-> space,
                   thrown |-> r.thrown, calls |-> r.calls,
                   accepted |-> done.entries # nests]
        /\ UNCHANGED <<experiments, views, lit, params, runtime>>

\* The references a bare-reference nest is made of.
NestRefs ==
    {<<"amount">>, <<"j", "amount">>, <<"v0">>, <<"j", "v0">>,
     <<"j">>, <<"p">>, <<"missing">>, <<"j", "missing">>}

\* nest: n is { ... }  and  nest: n is v0 -> { ... }
NestDefinitions ==
    {[name |-> n, turtleName |-> <<>>, refinements |-> <<>>, qops |-> ops] :
        n \in {"n", "amount"}, ops \in {<<>>, <<<<"group_by">>>>}}

\* nest: v0 + { ... }: the declaration is named by the output name of the
\* reference it refines (constructor, lines 169-172).
NestRefinements ==
    {[name |-> Last(t), turtleName |-> t, refinements |-> <<"where">>, qops |-> <<>>] :
        t \in {<<"v0">>, <<"amount">>, <<"j", "v0">>}}

CanRegister(space) == isQuerySpace(space) => Len(nests) < MaxNests

NestReferenceMakeEntry ==
    \E name \in NestRefs, space \in Spaces :
        /\ CanRegister(space)
        /\ Registered("NestReference.makeEntry", name, space,
                      NestReference_makeEntry(views, experiments, name, space))

NestDefinitionMakeEntry ==
    \E d \in NestDefinitions, space \in Spaces :
        /\ CanRegister(space)
        /\ Registered("NestDefinition.makeEntry", d, space,
                      NestDefinition_makeEntry(d, space))

NestRefinementMakeEntry ==
    \E d \in NestRefinements, space \in Spaces :
        /\ CanRegister(space)
        /\ Registered("NestRefinement.makeEntry", d, space,
                      NestRefinement_makeEntry(d, space))

DataTypes == {"turtle", "number", "struct"}

Typecheck ==
    \E type \in [dataType : DataTypes, expressionType : ExpressionTypes] :
        LET r == typecheck(experiments, type)
        IN  /\ res' = [op |-> "typecheck", type |-> type, thrown |-> r.thrown]
            /\ diags' = r.log
            /\ UNCHANGED <<experiments, views, nests, lit, params, runtime>>

\* A source with one view, whole or partial, and an empty query stage over it,
\* translated with or without the scalar_lenses experiment.
InitNests ==
    /\ experiments \in BOOLEAN
    /\ \E ops \in {<<<<"group_by">>>>, <<<<"where">>>>} :
           views = [n \in {ViewNames[i] : i \in DOMAIN ViewNames} |->
                       IF n = "v0"
                       THEN [name |-> "v0", turtleName |-> <<>>,
                             refinements |-> <<>>, qops |-> ops]
                       ELSE NoDecl]
    /\ nests = <<>>
    /\ lit = <<>>
    /\ params = NoParams
    /\ NoRuntime
    /\ res = [op |-> "init"]
    /\ diags = <<>>

NextNests ==
    \/ NestReferenceMakeEntry
    \/ NestDefinitionMakeEntry
    \/ NestRefinementMakeEntry
    \/ Typecheck

SpecNests == InitNests /\ [][NextNests]_vars

----------------------------------------------------------------------------
(* ExprNumber *)

\* The length of a literal's text.
MaxLen == 3

\* The characters of a literal's text: digits, the decimal point and letters.
Digits == {"0", "3", "5"}
Chars == Digits \cup {".", "a", "b", "c"}

DigitValue(c) == CASE c = "0" -> 0 [] c = "3" -> 3 [] c = "5" -> 5

\* Number(text), read left to right: the digits read so far as num / den,
\* whether the point was met, how many digits were, and whether the text has
\* stopped being a decimal literal.
ScanChar(acc, c) ==
    IF acc.nan THEN acc
    ELSE IF c \in Digits
    THEN [acc EXCEPT !.num = 10 * @ + DigitValue(c),
                     !.den = IF acc.dot THEN 10 * @ ELSE @,
                     !.digits = @ + 1]
    ELSE IF c = "." /\ ~acc.dot
    THEN [acc EXCEPT !.dot = TRUE]
    ELSE [acc EXCEPT !.nan = TRUE]

RECURSIVE Scan(_, _)
Scan(acc, text) ==
    IF text = <<>> THEN acc ELSE Scan(ScanChar(acc, Head(text)), Tail(text))

\* Number(this.n): the empty text is 0, a text without any digit is NaN.
Number(text) ==
    LET end == Scan([num |-> 0, den |-> 1, dot |-> FALSE, digits |-> 0, nan |-> FALSE],
                    text)
    IN  IF text = <<>> THEN [nan |-> FALSE, num |-> 0, den |-> 1]
        ELSE IF end.nan \/ end.digits = 0 THEN [nan |-> TRUE, num |-> 0, den |-> 1]
        ELSE [nan |-> FALSE, num |-> end.num, den |-> end.den]

NumberIsNaN(n) == n.nan

\* Number.isInteger taken for "no digit was written after the point".
NumberIsInteger_NoDecimals(n) == ~n.nan /\ n.den = 1

NumberIsInteger(n) == ~n.nan /\ n.num % n.den = 0

\* literalExprValue({dataType, value})
literalExprValue(dataType, value) ==
    [dataType |-> dataType, value |-> value,
     expressionType |-> "scalar", evalSpace |-> "literal"]

\* ExprNumber.constantExpression, lines 41-43: the NumberTypeDef of n
numberTypeDef(n) ==
    IF NumberIsNaN(n)
    THEN [type |-> "number"]
    ELSE [type |-> "number",
          numberType |-> IF NumberIsInteger(n) THEN "integer" ELSE "float"]

\* ExprNumber.constantExpression()
constantExpression(text) ==
    literalExprValue(numberTypeDef(Number(text)),
                     [node |-> "numberLiteral", literal |-> text])

\* ExprNumber.getExpression(_fs)
getExpression(fs, text) == constantExpression(text)

ConstantExpression ==
    /\ res' = [op |-> "constantExpression", value |-> constantExpression(lit)]
    /\ diags' = <<>>
    /\ UNCHANGED <<experiments, views, nests, lit, params, runtime>>

GetExpression ==
    \E fs \in Spaces :
        /\ res' = [op |-> "getExpression", fs |-> fs, value |-> getExpression(fs, lit)]
        /\ diags' = <<>>
        /\ UNCHANGED <<experiments, views, nests, lit, params, runtime>>

\* new ExprNumber(n), any text
InitNumber ==
    /\ lit \in SeqsUpTo(Chars, MaxLen)
    /\ params = NoParams
    /\ NoRuntime
    /\ experiments = FALSE
    /\ views = [n \in {ViewNames[i] : i \in DOMAIN ViewNames} |-> NoDecl]
    /\ nests = <<>>
    /\ res = [op |-> "init"]
    /\ diags = <<>>

NextNumber == ConstantExpression \/ GetExpression

SpecNumber == InitNumber /\ [][NextNumber]_vars

----------------------------------------------------------------------------
(* SpaceParam: AbstractParameter and DefinedParameter *)

\* The number of SpaceParams made.
MaxParams == 2

ParamTypes == {"string", "number", "date"}

\* HasParameter.parameter(): the Parameter of the declaration as it stands.
HasParameter_parameter(astParam) == [name |-> astParam.name, type |-> astParam.type]

\* AbstractParameter.parameter()
AbstractParameter_parameter(astParam) == HasParameter_parameter(astParam)

\* AbstractParameter.typeDesc() without the `|| 'unknown'` of line 45.
AbstractParameter_typeDesc_NoDefault(astParam) ==
    [dataType |-> astParam.type, expressionType |-> "scalar"]

\* AbstractParameter.typeDesc()
AbstractParameter_typeDesc(astParam) ==
    LET type == IF astParam.type = Undefined THEN "unknown" ELSE astParam.type
    IN  [dataType |-> type, expressionType |-> "scalar"]

\* DefinedParameter.parameter()
DefinedParameter_parameter(paramDef) == paramDef

\* DefinedParameter.typeDesc()
DefinedParameter_typeDesc(paramDef) ==
    [dataType |-> paramDef.type, expressionType |-> "scalar"]

\* entry.parameter() and entry.typeDesc() of a SpaceParam; an
\* AbstractParameter holds the declaration itself, not a copy of it.
parameter(entry) ==
    IF entry.kind = "abstract"
    THEN AbstractParameter_parameter(params.astParam)
    ELSE DefinedParameter_parameter(entry.paramDef)

typeDesc(entry) ==
    IF entry.kind = "abstract"
    THEN AbstractParameter_typeDesc(params.astParam)
    ELSE DefinedParameter_typeDesc(entry.paramDef)

\* What a call that returned `r` leaves behind.
Called(r) ==
    /\ res' = r
    /\ diags' = <<>>
    /\ UNCHANGED <<experiments, views, nests, lit, runtime>>

\* The declaration's type is worked out, or changes.
SetType ==
    \E t \in ParamTypes \cup {Undefined} :
        /\ t # params.astParam.type
        /\ params' = [params EXCEPT !.astParam.type = t]
        /\ Called([op |-> "type"])

\* new AbstractParameter(astParam)
NewAbstractParameter ==
    /\ Len(params.entries) < MaxParams
    /\ params' = [params EXCEPT !.entries = Append(@, [kind |-> "abstract"])]
    /\ Called([op |-> "new AbstractParameter"])

\* new DefinedParameter(paramDef)
NewDefinedParameter ==
    /\ Len(params.entries) < MaxParams
    /\ \E paramDef \in [name : {"p"}, type : ParamTypes] :
           params' = [params EXCEPT !.entries =
                         Append(@, [kind |-> "defined", paramDef |-> paramDef])]
    /\ Called([op |-> "new DefinedParameter"])

TypeDesc ==
    \E i \in DOMAIN params.entries :
        /\ Called([op |-> "typeDesc", entry |-> i,
                               typeDesc |-> typeDesc(params.entries[i])])
        /\ UNCHANGED params

Parameter ==
    \E i \in DOMAIN params.entries :
        /\ Called([op |-> "parameter", entry |-> i,
                                parameter |-> parameter(params.entries[i])])
        /\ UNCHANGED params

InitParams ==
    /\ params = NoParams
    /\ NoRuntime
    /\ experiments = FALSE
    /\ views = [n \in {ViewNames[i] : i \in DOMAIN ViewNames} |-> NoDecl]
    /\ nests = <<>>
    /\ lit = <<>>
    /\ res = [op |-> "init"]
    /\ diags = <<>>

NextParams ==
    \/ SetType
    \/ NewAbstractParameter
    \/ NewDefinedParameter
    \/ TypeDesc
    \/ Parameter

SpecParams == InitParams /\ [][NextParams]_vars

----------------------------------------------------------------------------
(* WorkerConnection *)

\* The number of worker processes forked, of listeners registered and of
\* messages passed to send().
MaxWorkers == 2
MaxListeners == 2
MaxSent == 1

\* The status an 'exit' event carries: a code, or null after a signal.
ExitStatuses == {"0", "1", "null"}
Running == "running"

\* The messages a worker posts.
WorkerMessages == {[type |-> "log"], [type |-> "result"]}
Dead == [type |-> "dead"]

\* child_process.fork(workerModule, ...): a new process, with the three
\* listeners of lines 29-45 and none registered through on().
fork(by) ==
    [status |-> Running, listeners |-> <<>>, sent |-> 0, lost |-> 0,
     signalled |-> FALSE, by |-> by]

\* process.emit('message', message): the listener of lines 41-45 writes a
\* 'log' message to the output channel, then the listeners registered
\* through on() are called in the order they were registered.
emit(proc, message) ==
    [message |-> message, to |-> proc.listeners, logged |-> message.type = "log"]

NoEmit == [message |-> [type |-> "none"], to |-> <<>>, logged |-> FALSE]

\* WorkerConnection.notifyListeners(message)
notifyListeners(message) == emit(procs[worker], message)

\* The 'exit' listener with a second setTimeout(startWorker, 5000).
onExit_RestartsTwice(status) ==
    IF status # "0"
    THEN [timers |-> timers + 2, emitted |-> notifyListeners(Dead)]
    ELSE [timers |-> timers, emitted |-> NoEmit]

\* The 'exit' listener without the test of line 31.
onExit_AnyStatus(status) ==
    [timers |-> timers + 1, emitted |-> notifyListeners(Dead)]

\* The 'exit' listener, lines 30-40
onExit(status) ==
    IF status # "0"
    THEN [timers |-> timers + 1, emitted |-> notifyListeners(Dead)]
    ELSE [timers |-> timers, emitted |-> NoEmit]

Registrations == Cardinality({<<p, i>> \in (DOMAIN procs) \X (1..MaxListeners) :
                                 i <= Len(procs[p].listeners)})
RECURSIVE TotalSent(_)
TotalSent(n) == IF n = 0 THEN 0 ELSE procs[n].sent + TotalSent(n - 1)

Happened(r) ==
    /\ res' = r
    /\ diags' = <<>>
    /\ UNCHANGED <<experiments, views, nests, lit, params, pool, calls>>

\* A worker process ends: its 'exit' event, once, with null for its status
\* when it was sent the signal and with a code when it was not.  The last
\* process the bound allows ends with status 0.
Exit ==
    \E p \in DOMAIN procs, status \in ExitStatuses :
        /\ procs[p].status = Running
        /\ procs[p].signalled <=> status = "null"
        /\ Len(procs) = MaxWorkers => status = "0"
        /\ LET r == onExit(status)
           IN  /\ timers' = r.timers
               /\ Happened([op |-> "exit", proc |-> p, status |-> status,
                             emitted |-> r.emitted])
        /\ procs' = [procs EXCEPT ![p].status = status]
        /\ UNCHANGED worker

\* startWorker carrying the listeners of the previous process over.
startWorker_KeepsListeners(ps) ==
    IF ps = <<>>
    THEN Append(ps, fork("constructor"))
    ELSE Append(ps, [fork("timer") EXCEPT !.listeners = ps[Len(ps)].listeners])

\* startWorker, lines 26-46: this.worker is the new process.
startWorker(ps) == Append(ps, fork(IF ps = <<>> THEN "constructor" ELSE "timer"))

\* The timer of line 37 fires.
Restart ==
    /\ timers > 0
    /\ timers' = timers - 1
    /\ procs' = startWorker(procs)
    /\ worker' = Len(procs')
    /\ Happened([op |-> "startWorker", proc |-> Len(procs')])

\* A running worker posts a message.
WorkerMessage ==
    \E p \in DOMAIN procs, message \in WorkerMessages :
        /\ procs[p].status = Running
        /\ Happened([op |-> "message", proc |-> p, emitted |-> emit(procs[p], message)])
        /\ UNCHANGED <<procs, worker, timers>>

\* WorkerConnection.send(message): handed to this.worker, running or not.
Send ==
    /\ TotalSent(Len(procs)) < MaxSent
    /\ procs' = [procs EXCEPT ![worker].sent = @ + 1,
                               ![worker].lost = IF procs[worker].status = Running
                                                THEN @ ELSE @ + 1]
    /\ Happened([op |-> "send", proc |-> worker, pending |-> timers])
    /\ UNCHANGED <<worker, timers>>

\* WorkerConnection.on('message', listener): a listener is named by the
\* process that was this.worker when it was registered.
On ==
    /\ Registrations < MaxListeners
    /\ procs' = [procs EXCEPT ![worker].listeners = Append(@, [at |-> worker])]
    /\ Happened([op |-> "on", proc |-> worker])
    /\ UNCHANGED <<worker, timers>>

\* WorkerConnection.off('message', listener), of a listener registered on
\* any process: this.worker drops it if it has it.
Off ==
    \E at \in DOMAIN procs :
        /\ \E q \in DOMAIN procs : [at |-> at] \in {procs[q].listeners[i] : i \in DOMAIN procs[q].listeners}
        /\ LET ls == procs[worker].listeners
               has == {i \in DOMAIN ls : ls[i].at = at}
               last == CHOOSE i \in has : \A j \in has : j <= i
           IN  procs' = IF has = {} THEN procs
                        ELSE [procs EXCEPT ![worker].listeners =
                                 SubSeq(ls, 1, last - 1) \o SubSeq(ls, last + 1, Len(ls))]
        /\ Happened([op |-> "off", proc |-> worker])
        /\ UNCHANGED <<worker, timers>>

\* WorkerConnection.stop(): SIGHUP to this.worker.
Stop ==
    /\ Len(procs) < MaxWorkers
    /\ procs[worker].status = Running
    /\ ~procs[worker].signalled
    /\ procs' = [procs EXCEPT ![worker].signalled = TRUE]
    /\ Happened([op |-> "stop", proc |-> worker])
    /\ UNCHANGED <<worker, timers>>

\* new WorkerConnection(context): startWorker() has run once.
InitWorker ==
    /\ procs = startWorker(<<>>)
    /\ worker = 1
    /\ timers = 0
    /\ pool = [free |-> 0, waiting |-> <<>>]
    /\ calls = <<>>
    /\ experiments = FALSE
    /\ views = [n \in {ViewNames[i] : i \in DOMAIN ViewNames} |-> NoDecl]
    /\ nests = <<>>
    /\ lit = <<>>
    /\ params = NoParams
    /\ res = [op |-> "init"]
    /\ diags = <<>>

NextWorker ==
    \/ Exit
    \/ Restart
    \/ WorkerMessage
    \/ Send
    \/ On
    \/ Off
    \/ Stop

\* A timer that is armed fires.
SpecWorker == InitWorker /\ [][NextWorker]_vars /\ WF_vars(Restart)

----------------------------------------------------------------------------
(* SnowflakeExecutor *)

\* The number of batch and stream calls made, and of rows a statement streams.
MaxCalls == 2
MaxRows == 2

\* defaultPoolOptions_.max: the connections of the pool.
PoolMax == 1

\* String.prototype.toLowerCase on the column names of the model.
toLowerCase(key) ==
    CASE key = "A" -> "a"
      [] key = "B" -> "b"
      [] OTHER     -> key

\* A row is its columns in the order they were set, each a name and a value.
\* ret[key] = value: an existing column keeps its place and takes the value.
SetColumn(ret, key, value) ==
    IF \E i \in DOMAIN ret : ret[i].key = key
    THEN [i \in DOMAIN ret |-> IF ret[i].key = key
                                THEN [key |-> key, value |-> value] ELSE ret[i]]
    ELSE Append(ret, [key |-> key, value |-> value])

RECURSIVE LowerInto(_, _)
LowerInto(ret, row) ==
    IF row = <<>> THEN ret
    ELSE LowerInto(SetColumn(ret, toLowerCase(Head(row).key), Head(row).value),
                   Tail(row))

\* columnNameToLowerCase(row), lines 171-177
columnNameToLowerCase(row) == LowerInto(<<>>, row)

\* The rows a statement gives back.
Col(k, v) == [key |-> k, value |-> v]
Rows ==
    {<<Col("A", 1)>>, <<Col("B", 1), Col("a", 2)>>, <<Col("a", 1), Col("A", 2)>>}

\* What the completion callback is given as `rows`: nothing, no row, one row.
NoRows == [defined |-> FALSE, rows |-> <<>>]
QueryDatas == {NoRows} \cup {[defined |-> TRUE, rows |-> rs] : rs \in {<<>>} \cup {<<r>> : r \in Rows}}

MapRows(rows) == [i \in DOMAIN rows |-> columnNameToLowerCase(rows[i])]

\* The complete callback of _execute looking at the rows first.
complete_RowsFirst(err, data) ==
    IF data.defined
    THEN [settled |-> "resolved", value |-> MapRows(data.rows)]
    ELSE IF err
    THEN [settled |-> "rejected", value |-> <<>>]
    ELSE [settled |-> "pending", value |-> <<>>]

\* The complete callback of _execute, lines 255-265: what becomes of the
\* promise.  An array of no row is a value like any other.
complete(err, data) ==
    IF err
    THEN [settled |-> "rejected", value |-> <<>>]
    ELSE IF data.defined
    THEN [settled |-> "resolved", value |-> MapRows(data.rows)]
    ELSE [settled |-> "pending", value |-> <<>>]

\* options?.rowLimit
NoLimit == [defined |-> FALSE, value |-> 0]
RowLimits == {NoLimit} \cup {[defined |-> TRUE, value |-> n] : n \in 0..MaxRows}

\* A call of batch or stream: where it stands, the statements it has issued,
\* whether it has the connection, how often it gave it back, and, of a
\* stream, the rows seen (index) and the callbacks made.
NewCall(kind, limit) ==
    [kind |-> kind, state |-> "waiting", limit |-> limit, issued |-> <<>>,
     held |-> FALSE, releases |-> 0, index |-> 0,
     onData |-> 0, onEnd |-> 0, onError |-> 0]

SessionSql == "ALTER SESSION SET QUOTED_IDENTIFIERS_IGNORE_CASE = true;"
UserSql == "sqlText"

\* batch, lines 281-284, at the completion of the statement it waits for:
\* pool.use gives the connection back when the function it ran settles.
batchAfter(c, outcome) ==
    IF outcome.settled = "pending"
    THEN [c EXCEPT !.state = "hung"]
    ELSE IF outcome.settled = "rejected"
    THEN [c EXCEPT !.state = "rejected", !.held = FALSE, !.releases = @ + 1]
    ELSE IF c.state = "session"
    THEN [c EXCEPT !.state = "user", !.issued = Append(@, UserSql)]
    ELSE [c EXCEPT !.state = "resolved", !.held = FALSE, !.releases = @ + 1]

\* stream, lines 292-321, at the completion of the session statement: the
\* statement is executed and the generator over its rows returned.
streamAfter(c, outcome) ==
    IF outcome.settled = "pending"
    THEN [c EXCEPT !.state = "hung"]
    ELSE IF outcome.settled = "rejected"
    THEN [c EXCEPT !.state = "rejected"]
    ELSE [c EXCEPT !.state = "ready", !.issued = Append(@, UserSql)]

\* handleData that gives the connection back at the row limit.
handleData_ReleasesAtLimit(c) ==
    LET index == c.index + 1
        atLimit == c.limit.defined /\ index >= c.limit.value
    IN  [c EXCEPT !.onData = @ + 1,
                  !.index = index,
                  !.onEnd = IF atLimit THEN @ + 1 ELSE @,
                  !.held = IF atLimit THEN FALSE ELSE @,
                  !.releases = IF atLimit /\ c.held THEN @ + 1 ELSE @]

\* handleData that stops passing rows on once the row limit is reached.
handleData_StopsAtLimit(c) ==
    LET index == c.index + 1
    IN  IF c.limit.defined /\ c.index >= c.limit.value
        THEN [c EXCEPT !.index = index]
        ELSE [c EXCEPT !.onData = @ + 1,
                       !.index = index,
                       !.onEnd = IF c.limit.defined /\ index >= c.limit.value
                                 THEN @ + 1 ELSE @]

\* handleData, lines 310-316
handleData(c) ==
    LET index == c.index + 1
    IN  [c EXCEPT !.onData = @ + 1,
                  !.index = index,
                  !.onEnd = IF c.limit.defined /\ index >= c.limit.value
                            THEN @ + 1 ELSE @]

\* handleEnd, lines 304-307
handleEnd(c) ==
    [c EXCEPT !.onEnd = @ + 1, !.held = FALSE, !.releases = @ + 1, !.state = "ended"]

\* stream.on('error', onError), line 317
handleError(c) == [c EXCEPT !.onError = @ + 1]

\* What an event that made call `id` into `c` leaves behind: a connection
\* given back is free again.
Ran(id, c, r) ==
    /\ calls' = [calls EXCEPT ![id] = c]
    /\ pool' = [pool EXCEPT !.free = IF calls[id].held /\ ~c.held THEN @ + 1 ELSE @]
    /\ res' = r
    /\ diags' = <<>>
    /\ UNCHANGED <<experiments, views, nests, lit, params, procs, worker, timers>>

\* A call is made and waits for a connection: pool.use, pool.acquire.
Requested(kind, limit) ==
    /\ Len(calls) < MaxCalls
    /\ calls' = Append(calls, NewCall(kind, limit))
    /\ pool' = [pool EXCEPT !.waiting = Append(@, Len(calls) + 1)]
    /\ res' = [op |-> kind, call |-> Len(calls) + 1]
    /\ diags' = <<>>
    /\ UNCHANGED <<experiments, views, nests, lit, params, procs, worker, timers>>

\* SnowflakeExecutor.batch(sqlText)
Batch == Requested("batch", NoLimit)

\* SnowflakeExecutor.stream(sqlText, options)
Stream == \E limit \in RowLimits : Requested("stream", limit)

\* The pool hands a free connection to the call that has waited longest, and
\* the call issues the session statement on it (lines 282, 293).
Acquired ==
    /\ pool.free > 0
    /\ pool.waiting # <<>>
    /\ LET id == Head(pool.waiting)
       IN  /\ calls' = [calls EXCEPT ![id].state = "session", ![id].held = TRUE,
                                      ![id].issued = <<SessionSql>>]
           /\ res' = [op |-> "acquired", call |-> id]
    /\ pool' = [free |-> pool.free - 1, waiting |-> Tail(pool.waiting)]
    /\ diags' = <<>>
    /\ UNCHANGED <<experiments, views, nests, lit, params, procs, worker, timers>>

\* The statement a call waits for completes: the callback of _execute.
Complete ==
    \E id \in DOMAIN calls, err \in BOOLEAN, data \in QueryDatas :
        /\ calls[id].state \in {"session", "user"}
        /\ LET outcome == complete(err, data)
               c == IF calls[id].kind = "batch"
                    THEN batchAfter(calls[id], outcome)
                    ELSE streamAfter(calls[id], outcome)
           IN  Ran(id, c, [op |-> "complete", call |-> id, stage |-> calls[id].state,
                           err |-> err, data |-> data, outcome |-> outcome])

\* streamSnowflake(onError, onData, onEnd), lines 299-320, called by the
\* generator when it is read.
StreamSnowflake ==
    \E id \in DOMAIN calls :
        /\ calls[id].state = "ready"
        /\ Ran(id, [calls[id] EXCEPT !.state = "streaming"],
               [op |-> "streamSnowflake", call |-> id])

\* The row stream emits 'data'.
Data ==
    \E id \in DOMAIN calls, row \in Rows :
        /\ calls[id].state = "streaming"
        /\ calls[id].index < MaxRows
        /\ Ran(id, handleData(calls[id]),
               [op |-> "data", call |-> id, row |-> row,
                passed |-> columnNameToLowerCase(row)])

\* The row stream emits 'error', once.
StreamError ==
    \E id \in DOMAIN calls :
        /\ calls[id].state = "streaming"
        /\ calls[id].onError = 0
        /\ Ran(id, handleError(calls[id]), [op |-> "error", call |-> id])

\* The row stream emits 'end'.
End ==
    \E id \in DOMAIN calls :
        /\ calls[id].state = "streaming"
        /\ Ran(id, handleEnd(calls[id]), [op |-> "end", call |-> id])

\* new SnowflakeExecutor(connOptions): a pool of the default size.
InitSnowflake ==
    /\ pool = [free |-> PoolMax, waiting |-> <<>>]
    /\ calls = <<>>
    /\ procs = <<>>
    /\ worker = 0
    /\ timers = 0
    /\ experiments = FALSE
    /\ views = [n \in {ViewNames[i] : i \in DOMAIN ViewNames} |-> NoDecl]
    /\ nests = <<>>
    /\ lit = <<>>
    /\ params = NoParams
    /\ res = [op |-> "init"]
    /\ diags = <<>>

NextSnowflake ==
    \/ Batch
    \/ Stream
    \/ Acquired
    \/ Complete
    \/ StreamSnowflake
    \/ Data
    \/ StreamError
    \/ End

SpecSnowflake == InitSnowflake /\ [][NextSnowflake]_vars

----------------------------------------------------------------------------
(* Refinement of views: C1, C2, C3 *)


strip(p) == detectAndRemovePartialStages(p).pipeline
HasPartial(p) == \E i \in DOMAIN p : p[i].type = "partial"

\* refine(p, d's own clauses): d's refinement clauses onto p, then d's own
\* stages, evaluated against the output of what is there unless nothing is.
RefineWith(p, d) ==
    LET refined == refinePipeline(d.refinements, p)
    IN  appendOps(d.qops, IF refined = <<>> THEN "fs" ELSE "out", refined)

\* All the clauses of a chain of two declarations put onto p in one go.
Flatten(p, d1, d2) ==
    LET refined == refinePipeline(d1.refinements \o d2.refinements, p)
    IN  appendOps(d1.qops \o d2.qops, IF refined = <<>> THEN "fs" ELSE "out", refined)

PipelineOf(n) == getPipeline(views, experiments, views[n]).pipeline

\* The view the current declaration extends by a single-segment reference.
ExtendsView(d, w) == d.turtleName = <<w>> /\ Declared(views, w)
GotPipeline == res.op = "getPipeline"
Cur == views[res.view]

\* C1 as stated: getPipeline(V) = refine(pipeline(W), V.own), and three deep
\* refine(refine(pipeline(V0), V1.own), V2.own).
C1_AsStated ==
    GotPipeline =>
        \A w \in DOMAIN views :
            ExtendsView(Cur, w) =>
                /\ res.pipeline = RefineWith(PipelineOf(w), Cur)
                /\ \A u \in DOMAIN views :
                       ExtendsView(views[w], u) =>
                           res.pipeline =
                               RefineWith(RefineWith(PipelineOf(u), views[w]), Cur)

\* C1, amended: the pipeline of a view V extending a view W by a
\* single-segment reference is refine(strip(pipeline(W)), V.own): W is read
\* through its field definition, which has lost its partial stages.  Three
\* deep it is refine(strip(refine(strip(pipeline(V0)), V1.own)), V2.own), the
\* refinements applied one declaration after the other.
C1_SequentialRefinement ==
    GotPipeline =>
        \A w \in DOMAIN views :
            ExtendsView(Cur, w) =>
                /\ res.pipeline = RefineWith(strip(PipelineOf(w)), Cur)
                /\ \A u \in DOMAIN views :
                       ExtendsView(views[w], u) =>
                           res.pipeline =
                               RefineWith(strip(RefineWith(strip(PipelineOf(u)),
                                                           views[w])), Cur)

\* A chain three deep, resolved, whose result is not what putting all the
\* clauses onto the first view at once gives.
C1_Witness ==
    /\ GotPipeline
    /\ ExtendsView(Cur, "v1") /\ ExtendsView(views["v1"], "v0")
    /\ ~HasPartial(PipelineOf("v0")) /\ ~HasPartial(PipelineOf("v1"))
    /\ res.pipeline # Flatten(PipelineOf("v0"), views["v1"], Cur)
    /\ Len(Cur.refinements) > 0

\* C2 as stated: without an extended base the pipeline is the declaration's
\* own stages appended to the empty pipeline against fs, never refined.
C2_AsStated ==
    (GotPipeline /\ Cur.turtleName = <<>>) =>
        /\ res.pipeline = appendOps(Cur.qops, "fs", <<>>)
        /\ res.refines = 0

\* C2, amended: without an extended base the declaration's own stages are
\* appended to the empty pipeline against fs; no refinement pass is applied
\* to them when the declaration has no refinement clause, and exactly one,
\* over the appended stages, when it has.
C2_NoBase ==
    (GotPipeline /\ Cur.turtleName = <<>>) =>
        LET own == appendOps(Cur.qops, "fs", <<>>)
        IN  /\ res.scope = "fs"
            /\ Cur.refinements = <<>> => res.pipeline = own /\ res.refines = 0
            /\ Cur.refinements # <<>> =>
                   /\ res.pipeline = refinePipeline(Cur.refinements, own)
                   /\ res.refines = 1

\* A view without a base, with stages of its own and a refinement clause that
\* changes them.
C2_Witness ==
    /\ GotPipeline /\ Cur.turtleName = <<>>
    /\ Cur.qops # <<>> /\ Cur.refinements # <<>>
    /\ res.pipeline # appendOps(Cur.qops, "fs", <<>>)

\* C3: removing partial stages twice is removing them once; a pipeline
\* without partial stages comes back as it is, hasPartials false; and then
\* getFieldDef returns getPipeline's pipeline and logs nothing of its own.
C3_StripIdempotent ==
    /\ GotPipeline =>
           LET once == detectAndRemovePartialStages(res.pipeline)
               twice == detectAndRemovePartialStages(once.pipeline)
           IN  /\ twice.pipeline = once.pipeline
               /\ ~twice.hasPartials
               /\ ~HasPartial(once.pipeline)
               /\ ~HasPartial(res.pipeline) =>
                      once = [hasPartials |-> FALSE, pipeline |-> res.pipeline]
    /\ res.op = "getFieldDef" =>
           LET pipe == getPipeline(views, experiments, Cur)
           IN  ~HasPartial(pipe.pipeline) =>
                   /\ res.def.pipeline = pipe.pipeline
                   /\ diags = pipe.log

\* getFieldDef of a view extending another, on a pipeline of two stages none
\* of which is partial.
C3_Witness ==
    /\ res.op = "getFieldDef"
    /\ Cur.turtleName # <<>>
    /\ Len(res.def.pipeline) = 2
    /\ ~HasPartial(PipelineOf(res.view))

----------------------------------------------------------------------------
(* The type check of a bare-reference nest: C4, C5, C6 *)

Checked == res.op = "typecheck"
Logged(msg) == \E i \in DOMAIN diags : diags[i].msg = msg
TimesLogged(msg) == Cardinality({i \in DOMAIN diags : diags[i].msg = msg})

\* C4: NestReference.typecheck never rejects a target of data type 'turtle':
\* whatever its expressionType and the scalar-lens flag, no diagnostic and no
\* error.
C4_TurtleAccepted ==
    (Checked /\ res.type.dataType = "turtle") =>
        diags = <<>> /\ res.thrown = NoThrow

\* A view classified as an aggregate, checked without the experiment.
C4_Witness ==
    /\ Checked /\ ~experiments
    /\ res.type = [dataType |-> "turtle", expressionType |-> "aggregate"]

\* C5: on a scalar target that is no view, typecheck logs exactly one
\* diagnostic, the one recommending 'a group_by or select', without the
\* scalar-lens experiment, and nothing with it.
C5_ScalarTarget ==
    (Checked /\ res.type.dataType # "turtle" /\ res.type.expressionType = "scalar") =>
        /\ res.thrown = NoThrow
        /\ ~experiments =>
               /\ Len(diags) = 1
               /\ diags[1].msg = "Cannot use a scalar field in a nest operation, did you mean to use a group_by or select operation instead?"
        /\ experiments => diags = <<>>

\* A numeric scalar checked without the experiment, and rejected.
C5_Witness ==
    /\ Checked /\ ~experiments
    /\ res.type = [dataType |-> "number", expressionType |-> "scalar"]
    /\ Len(diags) = 1

\* C6: on an aggregate target that is no view, typecheck logs the diagnostic
\* 'did you mean to use an aggregate operation instead?' with and without the
\* scalar-lens experiment.
C6_AggregateRejected ==
    (Checked /\ res.type.dataType # "turtle" /\ res.type.expressionType = "aggregate") =>
        Logged("Cannot use an aggregate field in a nest operation, did you mean to use an aggregate operation instead?")

----------------------------------------------------------------------------
(* Registering nests: C8, C9, C10 *)

NestOps == {"NestReference.makeEntry", "NestDefinition.makeEntry",
            "NestRefinement.makeEntry"}
ByReference == res.op = "NestReference.makeEntry" /\ res.space = "qs"

ScalarMessage ==
    "Cannot use a scalar field in a nest operation, did you mean to use a group_by or select operation instead?"

\* The one call of fs.newEntry is for a view of a single reduce stage with the
\* single field `column`, read by `path`.
HandsOverLens(column, path) ==
    /\ Len(res.calls) = 1
    /\ res.calls[1].name = column
    /\ res.calls[1].entry.kind = "QueryFieldStruct"
    /\ LET def == res.calls[1].entry.def
       IN  /\ def.type = "turtle" /\ def.name = column
           /\ Len(def.pipeline) = 1
           /\ def.pipeline[1].type = "reduce"
           /\ Len(def.pipeline[1].fields) = 1
           /\ def.pipeline[1].fields[1].name = column
           /\ def.pipeline[1].fields[1].e = <<[type |-> "field", path |-> path]>>
    /\ res.accepted => Last(nests) = res.calls[1]

\* C8 as stated: nest of the numeric column amount: without scalar-lens a
\* group_by/select diagnostic and no entry, with it the one-stage view.
C8_AsStated ==
    (ByReference /\ res.subject = <<"amount">>) =>
        IF experiments
        THEN HandsOverLens("amount", <<"amount">>)
        ELSE Logged(ScalarMessage) /\ res.calls = <<>> /\ ~res.accepted

\* C8, amended: nest of the numeric column amount in a query space: with the
\* scalar-lens experiment and without it, makeEntry hands the query space a
\* TurtleDef of a single reduce stage with the single field amount (which
\* newEntry registers unless the name is taken), and logs no group_by/select
\* diagnostic.
C8_AtomicNest ==
    (ByReference /\ res.subject = <<"amount">>) =>
        /\ res.thrown = NoThrow
        /\ HandsOverLens("amount", <<"amount">>)
        /\ ~Logged(ScalarMessage)
        /\ ~res.accepted => Logged("Cannot redefine")

\* nest: amount, registered without the experiment.
C8_Witness ==
    /\ ByReference /\ res.subject = <<"amount">>
    /\ ~experiments
    /\ res.accepted
    /\ nests[1].name = "amount"

\* The reference resolves to an atomic column through the join.
AtomicThroughJoin(name) ==
    Len(name) = 2 /\ ColumnType(name[1]) = "struct" /\ ColumnType(name[2]) = "number"

\* C9 as stated: a reference of more than one segment always yields 'Cannot
\* nest view from join' and no entry.
C9_AsStated ==
    (ByReference /\ Len(res.subject) > 1) =>
        Logged("Cannot nest view from join") /\ res.calls = <<>>

\* C9, amended: a bare-reference nest whose reference has more than one
\* segment and does not resolve to an atomic field yields 'Cannot nest view
\* from join', once, and no entry, whatever the scalar-lens flag; one that
\* resolves to an atomic field (j.amount) is handed over as a one-stage view
\* and yields no such diagnostic.
C9_JoinedNest ==
    (ByReference /\ Len(res.subject) > 1) =>
        /\ res.thrown = NoThrow
        /\ ~AtomicThroughJoin(res.subject) =>
               /\ TimesLogged("Cannot nest view from join") = 1
               /\ res.calls = <<>>
               /\ ~res.accepted
        /\ AtomicThroughJoin(res.subject) =>
               /\ ~Logged("Cannot nest view from join")
               /\ HandsOverLens("amount", res.subject)

\* nest: j.v0 with the experiment on: rejected, nothing registered.
C9_Witness ==
    /\ ByReference /\ res.subject = <<"j", "v0">>
    /\ experiments
    /\ Logged("Cannot nest view from join")
    /\ nests = <<>>

\* C10: makeEntry of any of the three nests on a space that is no QuerySpace
\* throws 'Unexpected namespace for nest' and hands no entry over; on a
\* QuerySpace, NestDefinition and NestRefinement hand over exactly one entry,
\* under the declaration's name, a NestField whose enclosing space is that
\* same query space (which newEntry registers unless the name is taken).
C10_NestNamespace ==
    res.op \in NestOps =>
        /\ res.space # "qs" =>
               /\ res.thrown = "Unexpected namespace for nest"
               /\ res.calls = <<>>
               /\ ~res.accepted
        /\ (res.space = "qs" /\ res.op # "NestReference.makeEntry") =>
               /\ res.thrown = NoThrow
               /\ Len(res.calls) = 1
               /\ res.calls[1].name = res.subject.name
               /\ res.calls[1].entry.kind = "NestField"
               /\ res.calls[1].entry.turtle = res.subject
               /\ res.calls[1].entry.nestIn = res.space
               /\ res.calls[1].entry.inSpace = res.space
               /\ res.accepted => Last(nests) = res.calls[1]
               /\ ~res.accepted => Logged("Cannot redefine")

\* A nest definition registered in the query space, then a nest refused by
\* the source's own space.
C10_Witness ==
    /\ res.op \in NestOps /\ res.space = "fs"
    /\ res.thrown = "Unexpected namespace for nest"
    /\ Len(nests) = 1
    /\ nests[1].entry.kind = "NestField"
    /\ nests[1].entry.nestIn = "qs"

----------------------------------------------------------------------------
(* Numeric literals: C7 *)

\* The text is a decimal literal as Number() reads one: nothing at all, or
\* digits with at most one point among them.
ParsesAsNumber(text) ==
    \/ text = <<>>
    \/ /\ \A i \in DOMAIN text : text[i] \in Digits \cup {"."}
       /\ Cardinality({i \in DOMAIN text : text[i] = "."}) <= 1
       /\ \E i \in DOMAIN text : text[i] \in Digits

\* Nothing but zeros follows the point.
NoFraction(text) ==
    \A i, j \in DOMAIN text : (text[i] = "." /\ j > i) => text[j] = "0"

NumberTypeOf(v) ==
    IF "numberType" \in DOMAIN v.dataType THEN v.dataType.numberType ELSE "absent"

----------------------------------------------------------------------------
(* The name a view extends: C11 .. C17 *)

GotFieldDef == res.op = "getFieldDef"
Extends == Cur.turtleName # <<>>
HeadEnt == Lookup(views, Cur.turtleName)
ExpectedQuery == "Expected to be a query"

\* The stages of `pipeline` after the first `n` are the declaration's own
\* query operations, one stage each and in order, evaluated against `scope`.
OwnStagesAfter(pipeline, n, scope) ==
    /\ Len(pipeline) = n + Len(Cur.qops)
    /\ \A i \in DOMAIN Cur.qops :
           /\ pipeline[n + i].ops = Cur.qops[i]
           /\ pipeline[n + i].scope = scope

\* C11: when the extended name does not resolve, getPipeline logs the
\* diagnostic of the lookup and nothing else (no 'Expected ... to be a
\* query'), takes an empty base, appends the declaration's own stages against
\* the original space fs, and returns.
C11_UnresolvedBase ==
    (GotPipeline /\ Extends /\ HeadEnt.error # <<>>) =>
        /\ Len(diags) = 1
        /\ diags[1].msg = HeadEnt.error[1]
        /\ diags[1].node = Cur.name
        /\ ~Logged(ExpectedQuery)
        /\ res.base = <<>>
        /\ res.scope = "fs"
        /\ OwnStagesAfter(res.pipeline, 0, "fs")

\* A view extending a name that is not there, with a stage and a refinement
\* clause of its own.
C11_Witness ==
    /\ GotPipeline
    /\ Cur.turtleName = <<"missing">>
    /\ Len(Cur.qops) = 1 /\ Len(Cur.refinements) = 1
    /\ Len(res.pipeline) = 1
    /\ Logged("is not defined")

CantDetermine == "Can't determine view type"

\* The diagnostics this declaration logged itself, not those of the
\* declarations it reads.
OwnDiags(msg) ==
    Cardinality({i \in DOMAIN diags : diags[i].node = Cur.name /\ diags[i].msg = msg})

\* C12: getFieldDef returns a TurtleDef of type 'turtle' with the name and
\* the location of the declaration; when the resolved pipeline has a partial
\* stage the declaration logs exactly one 'Can't determine view type' and the
\* TurtleDef carries the pipeline without its partial stages; when it has
\* none the declaration logs no such diagnostic and the TurtleDef carries the
\* pipeline as resolved.
C12_FieldDefCleaned ==
    GotFieldDef =>
        LET pipeline == PipelineOf(res.view)
        IN  /\ res.def.type = "turtle"
            /\ res.def.name = Cur.name
            /\ res.def.location = Cur.name
            /\ HasPartial(pipeline) =>
                   /\ OwnDiags(CantDetermine) = 1
                   /\ ~HasPartial(res.def.pipeline)
                   /\ res.def.pipeline = SelectSeq(pipeline, LAMBDA st : st.type # "partial")
            /\ ~HasPartial(pipeline) =>
                   /\ OwnDiags(CantDetermine) = 0
                   /\ res.def.pipeline = pipeline

\* A view of a partial and a whole stage extending a view that was partial
\* itself: one diagnostic each, and the whole stage left.
C12_Witness ==
    /\ GotFieldDef
    /\ Cur.turtleName = <<"v0">>
    /\ HasPartial(PipelineOf("v0")) /\ HasPartial(PipelineOf(res.view))
    /\ Len(res.def.pipeline) = 1
    /\ TimesLogged(CantDetermine) = 2

\* The extended name is a path through the join that ends at a view.
ViewThroughJoin ==
    /\ Len(Cur.turtleName) > 1
    /\ HeadEnt.error = <<>>
    /\ HeadEnt.found.kind = "view"

\* C13: when the extended name resolves to a view through more than one path
\* segment, getPipeline logs 'Cannot use view from join' and goes on with an
\* empty base: no stage of the joined view is in the result.
C13_JoinBaseEmpty ==
    (GotPipeline /\ ViewThroughJoin) =>
        /\ Logged("Cannot use view from join")
        /\ res.base = <<>>
        /\ OwnStagesAfter(res.pipeline, 0, "fs")

\* The extended name resolves to a column that is no join.
PlainColumn ==
    /\ Extends
    /\ HeadEnt.error = <<>>
    /\ HeadEnt.found.kind = "column"
    /\ HeadEnt.found.type # "struct"

\* A stage made of field references and of no clause.
Synthesized(stage) == stage.fields # <<>>

\* C14: when the extended name resolves to a column whose type is not
\* 'struct' and the scalar-lens experiment is on, the base is the refinement,
\* by the declaration's refinement clauses, of a pipeline of one reduce stage
\* with that one field reference, and no 'Expected ... to be a query' is
\* logged; with the experiment off getPipeline synthesizes no stage.
C14_ScalarLensBase ==
    GotPipeline =>
        /\ (PlainColumn /\ experiments) =>
               /\ res.base # <<>>
               /\ res.base[1].type = "reduce"
               /\ res.base[1].fields = <<Cur.turtleName>>
               /\ \A i \in 2..Len(res.base) : ~Synthesized(res.base[i])
               /\ res.base =
                      refinePipeline(Cur.refinements,
                                     <<[res.base[1] EXCEPT !.ops = <<>>]>>)
               /\ res.refines = 1
               /\ ~Logged(ExpectedQuery)
        /\ ~experiments =>
               \A i \in DOMAIN res.pipeline : ~Synthesized(res.pipeline[i])

\* A view extending the column amount of the join with a select clause, in
\* the experiment: the lens and a stage after it.
C14_Witness ==
    /\ GotPipeline /\ experiments
    /\ Cur.turtleName = <<"j", "amount">>
    /\ Cur.refinements = <<"select">>
    /\ Len(res.base) = 2
    /\ diags = <<>>

\* The extended name resolves, and to something that is neither a view nor a
\* column the experiment makes a lens of: a field of a query that is no view,
\* a column without the experiment, a join, a parameter.
NotAQuery ==
    /\ Extends
    /\ HeadEnt.error = <<>>
    /\ \/ HeadEnt.found.kind = "queryfield"
       \/ HeadEnt.found.kind = "column" /\ (~experiments \/ HeadEnt.found.type = "struct")
       \/ HeadEnt.found.kind = "param"

\* C15: when the extended name resolves to anything that is neither a view
\* nor a lens-eligible column, getPipeline logs exactly one "Expected '<name>'
\* to be a query", about the name as written, and the base is empty.
C15_ExpectedQuery ==
    (GotPipeline /\ NotAQuery) =>
        /\ TimesLogged(ExpectedQuery) = 1
        /\ \A i \in DOMAIN diags :
               diags[i].msg = ExpectedQuery =>
                   diags[i].ref = Cur.turtleName /\ diags[i].node = Cur.name
        /\ res.base = <<>>
        /\ res.refines = 0
        /\ OwnStagesAfter(res.pipeline, 0, "fs")

\* A view extending a field of the join that is no view: told off for the
\* join and for the kind.
C15_Witness ==
    /\ GotPipeline
    /\ Cur.turtleName = <<"j", "q">>
    /\ Len(diags) = 2
    /\ Logged(ExpectedQuery)
    /\ Len(res.pipeline) = 2

\* C16: the declaration's own stages are appended against a fresh static
\* space over the output of the base pipeline exactly when the base pipeline
\* is not empty, and against the original space fs when it is empty.
C16_OwnScope ==
    GotPipeline =>
        /\ res.base # <<>> => res.scope = "out"
        /\ res.base = <<>> => res.scope = "fs"
        /\ ~res.trailing =>
               /\ SubSeq(res.pipeline, 1, Len(res.base)) = res.base
               /\ OwnStagesAfter(res.pipeline, Len(res.base), res.scope)
        /\ res.trailing =>
               \A i \in DOMAIN res.pipeline : res.pipeline[i].scope = "fs"

\* A view with a stage of its own after the two stages of the view it
\* extends.
C16_Witness ==
    /\ GotPipeline
    /\ Cur.turtleName = <<"v0">>
    /\ Len(res.base) = 2
    /\ Len(res.pipeline) = 3
    /\ res.pipeline[3].scope = "out"

\* C17: the trailing refinement over the assembled pipeline is applied if and
\* only if the declaration has at least one refinement clause and names no
\* view to extend; so one call of getPipeline applies the refinement operator
\* at most once, to the resolved base or at the end, never both.
C17_RefinedOnce ==
    GotPipeline =>
        /\ res.trailing <=> (Len(Cur.refinements) > 0 /\ ~Extends)
        /\ res.refines \in {0, 1}
        /\ res.trailing => (res.refines = 1 /\ res.base = <<>>)
        /\ (res.refines = 1 /\ ~res.trailing) => Extends

\* A view that extends nothing, with a stage of its own and a refinement
\* clause: refined at the end, once.
C17_Witness ==
    /\ GotPipeline
    /\ ~Extends
    /\ Len(Cur.refinements) = 1 /\ Len(Cur.qops) = 1
    /\ res.trailing /\ res.refines = 1
    /\ res.view = "v1"

----------------------------------------------------------------------------
(* The atomic shortcut and the analytic target of a nest: C18, C19 *)

\* The reference of the nest resolves, in the input space of the query space,
\* to an atomic field.
ResolvesToAtomic(name) ==
    LET lookup == Lookup(views, name)
    IN  /\ lookup.error = <<>>
        /\ isSpaceField(lookup.found)
        /\ isAtomicField(fieldDef(views, experiments, lookup.found).def)

\* C18: a bare-reference nest in a query space whose reference resolves to an
\* atomic field hands the query space a synthesized TurtleDef, of one reduce
\* stage with that single field, under the field's name, whatever the
\* scalar-lens flag; the shortcut comes before the join test, so a reference
\* of several segments is handed over too and no 'Cannot nest view from join'
\* is logged.
C18_AtomicShortcut ==
    (ByReference /\ ResolvesToAtomic(res.subject)) =>
        /\ res.thrown = NoThrow
        /\ HandsOverLens(Last(res.subject), res.subject)
        /\ res.calls[1].entry.inSpace = "qs"
        /\ res.calls[1].entry.def.pipeline[1].fields[1].type = "number"
        /\ ~Logged("Cannot nest view from join")
        /\ res.accepted \/ Logged("Cannot redefine")

\* nest: j.amount without the experiment: registered, nothing logged.
C18_Witness ==
    /\ ByReference /\ res.subject = <<"j", "amount">>
    /\ ~experiments
    /\ res.accepted
    /\ diags = <<>>
    /\ Last(nests).name = "amount"

\* C19: on an analytic target that is no view, typecheck logs exactly one
\* diagnostic, the one recommending a calculate operation, with and without
\* the scalar-lens experiment.
C19_AnalyticRejected ==
    (Checked /\ res.type.dataType # "turtle" /\ res.type.expressionType = "analytic") =>
        /\ Len(diags) = 1
        /\ diags[1].msg = NestMessage("an analytic", "a calculate")

----------------------------------------------------------------------------
(* Parameters: C20 *)

Asked == params.entries[res.entry]

\* C20: typeDesc() of either kind of parameter has expressionType 'scalar';
\* the dataType of an abstract parameter is the type its declaration has when
\* typeDesc() is called, 'unknown' when it has none; the dataType and the
\* parameter() of a defined parameter are those of the definition it was
\* made with.
C20_ParametersScalar ==
    /\ res.op = "typeDesc" =>
           /\ res.typeDesc.expressionType = "scalar"
           /\ (Asked.kind = "abstract" /\ params.astParam.type \in ParamTypes) =>
                  res.typeDesc.dataType = params.astParam.type
           /\ (Asked.kind = "abstract" /\ params.astParam.type \notin ParamTypes) =>
                  res.typeDesc.dataType = "unknown"
           /\ Asked.kind = "defined" =>
                  res.typeDesc.dataType = Asked.paramDef.type
    /\ (res.op = "parameter" /\ Asked.kind = "defined") =>
           res.parameter = Asked.paramDef

\* An abstract parameter, made next to a defined one of another type, asked
\* when its declaration has become a number.
C20_Witness ==
    /\ res.op = "typeDesc"
    /\ Asked.kind = "abstract"
    /\ params.astParam.type = "number"
    /\ res.typeDesc.dataType = "number"
    /\ Len(params.entries) = 2
    /\ params.entries[1].kind = "defined"
    /\ params.entries[1].paramDef.type = "date"

----------------------------------------------------------------------------
(* The worker of the extension: C21, C22, C23 *)

Exited(p) == procs[p].status # Running
Failed(p) == procs[p].status \notin {Running, "0"}

\* C21: when a worker exits with a status other than 0, a 'dead' message is
\* emitted to the listeners of that worker, one restart is scheduled and one
\* new worker is eventually forked for it; when it exits with status 0 no
\* message is emitted and no restart is scheduled, then or later.
C21_DeadAndRestart ==
    /\ [](res.op = "exit" =>
              IF res.status # "0"
              THEN /\ res.emitted.message = [type |-> "dead"]
                   /\ res.emitted.to = procs[res.proc].listeners
                   /\ timers = 1
              ELSE /\ res.emitted.message.type = "none"
                   /\ res.emitted.to = <<>>
                   /\ timers = 0)
    /\ [](Len(procs) - 1 + timers = Cardinality({p \in DOMAIN procs : Failed(p)}))
    /\ [](procs[Len(procs)].status = "0" => [](timers = 0 /\ procs[Len(procs)].status = "0"))
    /\ \A p \in 1..(MaxWorkers - 1) :
           (p \in DOMAIN procs /\ Failed(p)) ~> (p + 1 \in DOMAIN procs)

\* A worker with two listeners was killed: both are told, a restart is due.
C21_Witness ==
    /\ res.op = "exit" /\ res.status = "null"
    /\ Len(res.emitted.to) = 2
    /\ timers = 1
    /\ procs[worker].signalled

\* C22: at most one worker process is alive and at most one restart timer is
\* pending; the first worker is forked by the constructor and every other by
\* a timer, after the worker before it exited with a status other than 0.
C22_OneWorker ==
    /\ Cardinality({p \in DOMAIN procs : ~Exited(p)}) <= 1
    /\ timers <= 1
    /\ procs[1].by = "constructor"
    /\ \A p \in DOMAIN procs : p > 1 => (procs[p].by = "timer" /\ Failed(p - 1))

\* The second worker runs, forked by the timer after the first was killed.
C22_Witness ==
    /\ Len(procs) = 2
    /\ procs[1].status = "null"
    /\ ~Exited(2)
    /\ timers = 0
    /\ res.op = "startWorker"

\* C23: a listener is attached to the process that was current when it was
\* registered and to no other: a restarted worker starts with none, a message
\* of a worker reaches only the listeners registered while it was current,
\* and a message passed to send() between an exit and the restart is handed
\* to the exited process.
C23_ListenersNotCarried ==
    /\ \A p \in DOMAIN procs : \A i \in DOMAIN procs[p].listeners :
           procs[p].listeners[i].at = p
    /\ res.op = "startWorker" => procs[worker].listeners = <<>>
    /\ res.op = "message" =>
           \A i \in DOMAIN res.emitted.to : res.emitted.to[i].at = res.proc
    /\ (res.op = "send" /\ res.pending > 0) =>
           /\ res.proc = worker
           /\ Exited(res.proc)
           /\ procs[res.proc].lost > 0
    /\ \A p \in DOMAIN procs : procs[p].lost > 0 => Failed(p) \/ procs[p].status = "0"

\* The second worker posts a message: the listener of the first is not
\* called, and the first was handed a message after it had exited.
C23_Witness ==
    /\ res.op = "message" /\ res.proc = 2
    /\ Len(procs[1].listeners) = 1
    /\ res.emitted.to = <<>>
    /\ procs[1].lost = 1

----------------------------------------------------------------------------
(* The Snowflake executor: C24, C25, C26 *)

Streams == {id \in DOMAIN calls : calls[id].kind = "stream"}
Batches == {id \in DOMAIN calls : calls[id].kind = "batch"}
Ended(c) == c.state = "ended"
Granted(c) == c.state # "waiting"
AtLimit(c) == c.limit.defined /\ c.index >= c.limit.value
Max(a, b) == IF a >= b THEN a ELSE b

\* C24: a stream gives its connection back to the pool when the row stream
\* emits 'end', once, and at no other event: not at the row limit and not at a
\* stream 'error'; so a stream that has erred and not ended keeps the
\* connection and, the pool holding one connection, every call made after it
\* waits.
C24_ReleasedAtEnd ==
    \A id \in Streams :
        LET c == calls[id]
        IN  /\ c.releases = IF Ended(c) THEN 1 ELSE 0
            /\ c.held <=> (Granted(c) /\ ~Ended(c))
            /\ (AtLimit(c) /\ c.state = "streaming") => c.held
            /\ (c.onError > 0 /\ ~Ended(c)) =>
                   /\ c.held
                   /\ pool.free = 0
                   /\ \A later \in DOMAIN calls :
                          later > id => calls[later].state = "waiting"

\* A stream past its row limit has erred and not ended; the batch made after
\* it waits.
C24_Witness ==
    /\ Len(calls) = 2
    /\ calls[1].kind = "stream" /\ calls[1].onError = 1
    /\ calls[1].limit.defined /\ calls[1].index > calls[1].limit.value
    /\ calls[1].state = "streaming"
    /\ calls[2].kind = "batch" /\ calls[2].state = "waiting"
    /\ res.op = "batch"

\* C25: every row of the stream is passed to onData, those after the row
\* limit too; with a row limit L, onEnd is called after the row numbered
\* max(1, L) and after each later row, and once more at 'end'; without a row
\* limit it is called at 'end' only.
C25_EndCallbacks ==
    /\ \A id \in Streams :
           LET c == calls[id]
               first == Max(1, c.limit.value)
               atRows == IF c.limit.defined THEN Max(0, c.index - first + 1) ELSE 0
           IN  /\ c.onData = c.index
               /\ c.onEnd = atRows + (IF Ended(c) THEN 1 ELSE 0)
    /\ res.op = "data" =>
           /\ Len(res.passed) >= 1
           /\ \A j \in DOMAIN res.passed :
                  \E i \in DOMAIN res.row : res.passed[j].key = toLowerCase(res.row[i].key)

\* A stream limited to one row has given two and ended: the end was told
\* three times.
C25_Witness ==
    /\ res.op = "end"
    /\ calls[res.call].limit = [defined |-> TRUE, value |-> 1]
    /\ calls[res.call].onData = 2
    /\ calls[res.call].onEnd = 3

LowerCased == {"a", "b"}

\* `low` is `row` with every column name lower-cased: the names are those of
\* `row` in lower case, each once, each with the value `row` gave last to a
\* column of that name.
IsLowerCased(low, row) ==
    /\ \A j \in DOMAIN low : low[j].key \in LowerCased
    /\ \A j, k \in DOMAIN low : low[j].key = low[k].key => j = k
    /\ {low[j].key : j \in DOMAIN low} = {toLowerCase(row[i].key) : i \in DOMAIN row}
    /\ \A j \in DOMAIN low :
           \E i \in DOMAIN row :
               /\ toLowerCase(row[i].key) = low[j].key
               /\ row[i].value = low[j].value
               /\ \A h \in DOMAIN row : toLowerCase(row[h].key) = low[j].key => h <= i

\* C26: at a completion callback the promise of _execute is rejected when an
\* error is reported, rows or not; resolved with the rows, their column names
\* lower-cased, when no error and rows are reported; left unsettled when
\* neither is.  So batch issues the user's SQL only once the session
\* statement has resolved, on the connection it still holds, and a call whose
\* statement completed with neither keeps waiting, and keeps the connection.
C26_ExecuteSettles ==
    /\ res.op = "complete" =>
           /\ res.err => res.outcome.settled = "rejected"
           /\ (~res.err /\ res.data.defined) =>
                  /\ res.outcome.settled = "resolved"
                  /\ Len(res.outcome.value) = Len(res.data.rows)
                  /\ \A i \in DOMAIN res.data.rows :
                         IsLowerCased(res.outcome.value[i], res.data.rows[i])
           /\ (~res.err /\ ~res.data.defined) =>
                  /\ res.outcome.settled = "pending"
                  /\ calls[res.call].state = "hung"
           /\ (res.stage = "session" /\ res.call \in Batches) =>
                  (Len(calls[res.call].issued) = 2 <=> res.outcome.settled = "resolved")
    /\ \A id \in Batches :
           LET c == calls[id]
           IN  /\ c.state = "session" => c.issued = <<SessionSql>>
               /\ Len(c.issued) = 2 => c.issued = <<SessionSql, UserSql>>
               /\ c.state \in {"user", "hung"} => (c.held /\ c.releases = 0)
               /\ c.state \in {"resolved", "rejected"} => (~c.held /\ c.releases = 1)

\* The user's statement of a batch completes with an error and with a row
\* whose two columns differ in case only: rejected.
C26_Witness ==
    /\ res.op = "complete" /\ res.stage = "user"
    /\ res.call \in Batches
    /\ res.err /\ res.data.defined
    /\ res.data.rows = <<<<Col("a", 1), Col("A", 2)>>>>
    /\ calls[res.call].state = "rejected"
    /\ pool.free = 1

====
